---- MODULE Spec2Model ----
(***************************************************************************)
(* Model of the two services of the repository:                            *)
(*   stt-service/main.py  speech-to-text  (/transcribe)                    *)
(*   tts-service/main.py  text-to-speech  (/generate-speech)               *)
(*                                                                         *)
(* Each handler is an asyncio coroutine.  A step of the model is the code  *)
(* a coroutine runs between two points where the event loop may switch to  *)
(* another coroutine.  In transcribe_audio these points are                *)
(* `await asyncio.sleep(0.1)` (line 75) and `await audio.read()` (line     *)
(* 174).  The call whisper.load_model (line 83) is a blocking call of an   *)
(* external library; the model gives it a duration (from Admit, where the  *)
(* call starts, to LoadEnd) during which other coroutines may run.  The    *)
(* schedules of a single-threaded event loop are those in which LoadEnd    *)
(* directly follows that Admit, so the model's behaviours include all of   *)
(* the program's.                                                          *)
(***************************************************************************)
EXTENDS Integers, Sequences, FiniteSets, TLC

\* ------------------------------------------------------------------ bounds
\* number of /transcribe requests of a run
NumReqs == 3
\* number of /generate-speech requests of a run
MaxSpeech == 2
\* length of the text of a TTSRequest
MaxTextLen == 3
\* number of entries of a directory given to a cleanup run
MaxDirLen == 2
\* length of the filename of an upload
MaxNameLen == 4

\* ------------------------------------------------------- program constants
\* stt-service/main.py:36, int(os.getenv("MAX_CONCURRENT_REQUESTS", "5")):
\* the deployment modelled here sets the environment variable to 2
MAX_CONCURRENT_REQUESTS == 2
\* stt-service/main.py:33
MAX_AUDIO_SIZE == 52428800
\* stt-service/main.py:136, "Remove files older than 30 minutes"
STT_MAX_AGE == 1800
\* tts-service/main.py:137, "Remove files older than 1 hour"
TTS_MAX_AGE == 3600

Reqs == 1..NumReqs

VARIABLES
    \* ---- stt-service globals (main.py:39-41)
    whisper_model,      \* "None" or "model"
    model_loading,      \* BOOLEAN
    current_requests,   \* Nat
    \* ---- stt-service control state
    startup,            \* startup_event: "pending", "loading", "done"
    pc,                 \* position of each /transcribe coroutine
    resp,               \* HTTP status answered to each request, 0 = none yet
    tempDir,            \* entries of TEMP_AUDIO_DIR, each with its age
    \* ---- observations of the run (written, never read by the program)
    incs,               \* per request: times line 154 ran
    decs,               \* per request: times line 224 ran
    loadCalls,          \* times whisper.load_model was called
    loadsOk,            \* times whisper.load_model returned a model
    invoked,            \* per request: model.transcribe was called
    noModel,            \* per request: load_whisper_model raised or gave None
    \* ---- tts-service globals (main.py:45-47)
    tts_model,          \* "None" or "model"
    tts_model_loading,  \* BOOLEAN (model_loading of tts-service)
    model_loaded,       \* BOOLEAN
    \* ---- tts-service control state
    ttsStartup,         \* startup_event: "pending", "done"
    ttsPending,         \* number of cleanup_old_files tasks scheduled
    audioDir,           \* entries of AUDIO_OUTPUT_DIR, each with its age
    served,             \* number of /generate-speech requests handled
    \* ---- observations of the tts run
    ttsLoadCalls,       \* times TTS(TTS_MODEL_NAME) was called
    speech,             \* what the last /generate-speech request did
    \* ---- inputs and results of the functions checked on their own
    langIn, langOut,    \* a TTSRequest and the language chosen for it
    dirIn, dirOut,      \* a directory listing and the result of a cleanup run
    convIn, convOut     \* an upload and the path given to model.transcribe

sttVars == <<whisper_model, model_loading, current_requests, startup, pc, resp,
             tempDir, incs, decs, loadCalls, loadsOk, invoked, noModel>>

ttsVars == <<tts_model, tts_model_loading, model_loaded, ttsStartup, ttsPending,
             audioDir, served, ttsLoadCalls, speech>>

funVars == <<langIn, langOut, dirIn, dirOut, convIn, convOut>>

vars == <<sttVars, ttsVars, funVars>>

\* ------------------------------------------------------------ pure helpers
\* str.lower() on the characters used here (code points): ASCII and Russian
Lower(c) ==
    IF c \in 65..90 \/ c \in 1040..1071 THEN c + 32
    ELSE IF c = 1025 THEN 1105
    ELSE c

LowerStr(s) == [i \in 1..Len(s) |-> Lower(s[i])]

\* str.endswith
EndsWith(s, suffix) ==
    /\ Len(s) >= Len(suffix)
    /\ SubSeq(s, Len(s) - Len(suffix) + 1, Len(s)) = suffix

\* '.wav'
DotWav == <<46, 119, 97, 118>>

\* audio.filename of the uploads sent to the service: "A.WAV", "a.mp3";
\* hasName = FALSE is an upload without a filename (None)
SampleNames == { <<65, 46, 87, 65, 86>>, <<97, 46, 109, 112, 51>> }

UploadsOf(names) ==
    {[hasName |-> TRUE, name |-> n] : n \in names}
        \cup {[hasName |-> FALSE, name |-> <<>>]}

\* audio.size: 0 stands for None or 0, which line 159 treats alike
Sizes == {0, MAX_AUDIO_SIZE, MAX_AUDIO_SIZE + 1}

\* line 151: the admission gate
OverLimit_Strict(cr) == cr > MAX_CONCURRENT_REQUESTS

OverLimit(cr) == cr >= MAX_CONCURRENT_REQUESTS

\* line 159: `audio.size and audio.size > MAX_AUDIO_SIZE`
TooLarge(size) == size # 0 /\ size > MAX_AUDIO_SIZE

\* line 224: the finally clause of transcribe_audio
FinallyDecrement_Skip(cr) == cr

FinallyDecrement(cr) == cr - 1

\* lines 69-78: what a call of load_whisper_model does on entry
LoadEntry_NoGuard(model, loading) ==
    IF model # "None" THEN "return" ELSE "load"

LoadEntry(model, loading) ==
    IF model # "None" THEN "return"
    ELSE IF loading THEN "wait"
    ELSE "load"

\* lines 90-91: model_loading when the loading call exits; ok = the load
\* returned a model, ~ok = it raised
LoadingAfterLoad_OnlyOnSuccess(ok) == ~ok

LoadingAfterLoad(ok) == FALSE

\* lines 103-124: convert_audio_format; ffmpegOk = ffmpeg's run did not raise,
\* librosaOk = librosa.load and sf.write did not raise
ConvertAudioFormat(ffmpegOk, librosaOk) ==
    IF ffmpegOk
    THEN [ret |-> TRUE, raised |-> FALSE, ffmpegTried |-> TRUE,
          librosaTried |-> FALSE]
    ELSE IF librosaOk
    THEN [ret |-> TRUE, raised |-> FALSE, ffmpegTried |-> TRUE,
          librosaTried |-> TRUE]
    ELSE [ret |-> FALSE, raised |-> FALSE, ffmpegTried |-> TRUE,
          librosaTried |-> TRUE]

\* the record of a request that did not call convert_audio_format
NotCalled ==
    [ret |-> FALSE, raised |-> FALSE, ffmpegTried |-> FALSE,
     librosaTried |-> FALSE]

\* line 181: `not audio.filename.lower().endswith('.wav')`; on an upload
\* without a filename the expression raises AttributeError (line 184 catches)
NeedsConversion_CaseSensitive(upload) ==
    upload.hasName /\ ~EndsWith(upload.name, DotWav)

NeedsConversion(upload) ==
    upload.hasName /\ ~EndsWith(LowerStr(upload.name), DotWav)

\* lines 178-185: the conversion made and the path given to model.transcribe
Conversion(upload, ffmpegOk, librosaOk) ==
    LET conv == IF NeedsConversion(upload)
                THEN ConvertAudioFormat(ffmpegOk, librosaOk)
                ELSE NotCalled
    IN  [conv |-> conv,
         path |-> IF NeedsConversion(upload) /\ conv.ret
                  THEN "converted" ELSE "input"]

\* ------------------------------------------------------ age-based eviction
\* An entry of a directory listing: id, isfile (os.path.isfile), ctime
\* (os.path.getctime) and err, the filesystem call that raises on it:
\* "none", "getctime" or "remove".
Old_Inclusive(e, current_time, max_age) == current_time - e.ctime >= max_age

\* lines 134-136 (stt) / 135-137 (tts): file_age > threshold
Old(e, current_time, max_age) == current_time - e.ctime > max_age

\* The loop of cleanup_temp_files / cleanup_old_files from entry i on:
\* the ids removed and whether an exception left the loop (line 139 / 140
\* catches it).
RECURSIVE CleanupLoop(_, _, _, _)
CleanupLoop(listing, i, current_time, max_age) ==
    IF i > Len(listing) THEN [removed |-> {}, error |-> FALSE]
    ELSE LET e == listing[i]
             rest == CleanupLoop(listing, i + 1, current_time, max_age)
         IN  IF ~e.isfile THEN rest
             ELSE IF e.err = "getctime" THEN [removed |-> {}, error |-> TRUE]
             ELSE IF ~Old(e, current_time, max_age) THEN rest
             ELSE IF e.err = "remove" THEN [removed |-> {}, error |-> TRUE]
             ELSE [removed |-> {e.id} \cup rest.removed, error |-> rest.error]

\* a run of the cleanup task; raised = an exception reached the caller
CleanupRun(listing, current_time, max_age) ==
    LET r == CleanupLoop(listing, 1, current_time, max_age)
    IN  [removed |-> r.removed, error |-> r.error, raised |-> FALSE]

\* the entries of S in some order
RECURSIVE SeqOf(_)
SeqOf(S) ==
    IF S = {} THEN <<>>
    ELSE LET x == CHOOSE y \in S : TRUE IN <<x>> \o SeqOf(S \ {x})

\* time.time() of the runs tried
CleanupTime == 2 * TTS_MAX_AGE

\* What os.listdir returns for dir in the service models at time t, with the
\* filesystem failures that may occur: none, or a call (kind) failing on the
\* k-th entry.  A directory of the service models holds each file with its
\* age, so its ctime is t - age.  The order of os.listdir is arbitrary; the
\* service models take one order for each directory, CleanupSpec runs the
\* loop over every order.
AsListing(dir, t, k, kind) ==
    LET l == SeqOf(dir)
    IN  [i \in 1..Len(l) |->
            [id |-> l[i].id, isfile |-> l[i].isfile, ctime |-> t - l[i].age,
             err |-> IF i = k THEN kind ELSE "none"]]

Listings(dir) ==
    {AsListing(dir, CleanupTime, 0, "none")}
    \cup {AsListing(dir, CleanupTime, k, kind) :
            k \in 1..Cardinality(dir), kind \in {"getctime", "remove"}}

\* Time passes by more than max_age.  The cleanup compares an age with the
\* threshold only, so ages above the threshold are not told apart.
Aged(dir, max_age) ==
    {[id |-> e.id, isfile |-> e.isfile, age |-> max_age + 1] : e \in dir}

\* ---------------------------------------------------------- stt-service
SttInit ==
    /\ whisper_model = "None"
    /\ model_loading = FALSE
    /\ current_requests = 0
    /\ startup = "pending"
    /\ pc = [r \in Reqs |-> "idle"]
    /\ resp = [r \in Reqs |-> 0]
    /\ tempDir = {}
    /\ incs = [r \in Reqs |-> 0]
    /\ decs = [r \in Reqs |-> 0]
    /\ loadCalls = 0
    /\ loadsOk = 0
    /\ invoked = [r \in Reqs |-> FALSE]
    /\ noModel = [r \in Reqs |-> FALSE]

\* the temp files of request r (lines 169-170); file_id is a fresh uuid
InputFile(r) == [id |-> <<"input", r>>, isfile |-> TRUE, age |-> 0]
ConvertedFile(r) == [id |-> <<"converted", r>>, isfile |-> TRUE, age |-> 0]

\* startup_event, lines 94-101: load_whisper_model up to whisper.load_model
StartupBegin ==
    /\ startup = "pending"
    /\ LoadEntry(whisper_model, model_loading) = "load"
    /\ model_loading' = TRUE
    /\ loadCalls' = loadCalls + 1
    /\ startup' = "loading"
    /\ UNCHANGED <<noModel, whisper_model, current_requests, pc, resp, tempDir, incs,
                   decs, loadsOk, invoked, ttsVars, funVars>>

\* whisper.load_model returns (lines 84-86, 91) or raises (lines 87-91);
\* startup_event logs the exception (line 101)
StartupEnd(ok) ==
    /\ startup = "loading"
    /\ whisper_model' = IF ok THEN "model" ELSE whisper_model
    /\ loadsOk' = IF ok THEN loadsOk + 1 ELSE loadsOk
    /\ model_loading' = LoadingAfterLoad(ok)
    /\ startup' = "done"
    /\ UNCHANGED <<noModel, current_requests, pc, resp, tempDir, incs, decs, loadCalls,
                   invoked, ttsVars, funVars>>

\* leaving the try block of transcribe_audio with a response: the finally
\* clause (line 224) runs; cr is current_requests before it
Finish(r, code, cr) ==
    /\ resp' = [resp EXCEPT ![r] = code]
    /\ current_requests' = FinallyDecrement(cr)
    /\ decs' = [decs EXCEPT ![r] = @ + 1]

\* line 165: the status answered when load_whisper_model returned no model
NoModelStatus == 503

\* line 222: the status answered when the try block raised
ErrorStatus == 500

\* lines 164-174, after load_whisper_model returned `model`: 503 without a
\* model, else the temp input file is opened and the upload is awaited
WithModel(r, model, cr) ==
    IF model = "None"
    THEN /\ Finish(r, NoModelStatus, cr)
         /\ pc' = [pc EXCEPT ![r] = "done"]
         /\ noModel' = [noModel EXCEPT ![r] = TRUE]
         /\ UNCHANGED tempDir
    ELSE /\ tempDir' = tempDir \cup {InputFile(r)}
         /\ pc' = [pc EXCEPT ![r] = "reading"]
         /\ current_requests' = cr
         /\ UNCHANGED <<resp, decs, noModel>>

\* request r arrives: the server accepts requests once startup_event has
\* ended; requests are numbered in their order of arrival
Arrives(r) ==
    /\ startup = "done"
    /\ pc[r] = "idle"
    /\ \A q \in Reqs : q < r => pc[q] # "idle"

\* lines 151-152: the request is rejected
Reject(r) ==
    /\ Arrives(r)
    /\ OverLimit(current_requests)
    /\ resp' = [resp EXCEPT ![r] = 429]
    /\ pc' = [pc EXCEPT ![r] = "done"]
    /\ UNCHANGED <<noModel, whisper_model, model_loading, current_requests, startup,
                   tempDir, incs, decs, loadCalls, loadsOk, invoked, 
                   ttsVars, funVars>>

\* lines 151-163: the request is admitted and runs to its first await, or to
\* its response
Admit(r, size) ==
    /\ Arrives(r)
    /\ ~OverLimit(current_requests)
    /\ incs' = [incs EXCEPT ![r] = @ + 1]
    /\ LET cr == current_requests + 1
           entry == LoadEntry(whisper_model, model_loading)
       IN  IF TooLarge(size)
           THEN /\ Finish(r, 413, cr)
                /\ pc' = [pc EXCEPT ![r] = "done"]
                /\ UNCHANGED <<model_loading, loadCalls, tempDir, noModel>>
           ELSE IF entry = "return"
           THEN /\ WithModel(r, whisper_model, cr)
                /\ UNCHANGED <<model_loading, loadCalls>>
           ELSE IF entry = "wait"
           THEN /\ pc' = [pc EXCEPT ![r] = "waiting"]
                /\ current_requests' = cr
                /\ UNCHANGED <<model_loading, loadCalls, tempDir, resp, decs,
                               noModel>>
           ELSE /\ model_loading' = TRUE
                /\ loadCalls' = loadCalls + 1
                /\ pc' = [pc EXCEPT ![r] = "loading"]
                /\ current_requests' = cr
                /\ UNCHANGED <<tempDir, resp, decs, noModel>>
    /\ UNCHANGED <<whisper_model, startup, loadsOk, invoked, 
                   ttsVars, funVars>>

\* whisper.load_model returns to request r (lines 84-86, 91, then 164-174) or
\* raises (lines 87-91, then 220-224)
LoadEnd(r, ok) ==
    /\ pc[r] = "loading"
    /\ model_loading' = LoadingAfterLoad(ok)
    /\ IF ok
       THEN /\ whisper_model' = "model"
            /\ loadsOk' = loadsOk + 1
            /\ WithModel(r, "model", current_requests)
       ELSE /\ Finish(r, ErrorStatus, current_requests)
            /\ pc' = [pc EXCEPT ![r] = "done"]
            /\ noModel' = [noModel EXCEPT ![r] = TRUE]
            /\ UNCHANGED <<whisper_model, loadsOk, tempDir>>
    /\ UNCHANGED <<startup, incs, loadCalls, invoked, ttsVars,
                   funVars>>

\* lines 74-76: request r wakes from asyncio.sleep(0.1) in the wait loop
Wake(r) ==
    /\ pc[r] = "waiting"
    /\ IF model_loading
       THEN UNCHANGED <<pc, resp, decs, current_requests, tempDir, noModel>>
       ELSE WithModel(r, whisper_model, current_requests)
    /\ UNCHANGED <<whisper_model, model_loading, startup, incs, loadCalls,
                   loadsOk, invoked, ttsVars, funVars>>

\* lines 203-207: the temp files of r are removed (os.remove is taken not
\* to raise here)
RemoveOwn(dir, r) ==
    {e \in dir : e.id \notin {<<"input", r>>, <<"converted", r>>}}

\* What the calls of lines 174-190 may do: audio.read / write raise (readOk
\* = FALSE), ffmpeg raises, librosa raises, model.transcribe raises.
\* Combinations that differ only in a call that is not made are listed once.
Outcomes ==
    {[readOk |-> FALSE, ffmpegOk |-> TRUE, librosaOk |-> TRUE,
      transcribeOk |-> FALSE]}
    \cup {[readOk |-> TRUE, ffmpegOk |-> c[1], librosaOk |-> c[2],
           transcribeOk |-> t] :
          c \in {<<TRUE, TRUE>>, <<FALSE, TRUE>>, <<FALSE, FALSE>>},
          t \in BOOLEAN}

\* lines 174-224: `await audio.read()` returned or raised
ReadDone(r, upload, o) ==
    /\ pc[r] = "reading"
    /\ LET step == Conversion(upload, o.ffmpegOk, o.librosaOk)
           made == IF step.conv.ret THEN {ConvertedFile(r)} ELSE {}
       IN  IF ~o.readOk
           THEN /\ Finish(r, ErrorStatus, current_requests)
                /\ pc' = [pc EXCEPT ![r] = "done"]
                /\ UNCHANGED <<tempDir, invoked>>
           ELSE /\ invoked' = [invoked EXCEPT ![r] = TRUE]
                /\ IF o.transcribeOk
                   THEN /\ Finish(r, 200, current_requests)
                        /\ pc' = [pc EXCEPT ![r] = "background"]
                        /\ tempDir' = RemoveOwn(tempDir \cup made, r)
                   ELSE /\ Finish(r, ErrorStatus, current_requests)
                        /\ pc' = [pc EXCEPT ![r] = "done"]
                        /\ tempDir' = tempDir \cup made
    /\ UNCHANGED <<noModel, whisper_model, model_loading, startup, incs, loadCalls,
                   loadsOk, ttsVars, funVars>>

\* line 200: the cleanup_temp_files task of r runs after its response
Background(r, listing) ==
    /\ pc[r] = "background"
    /\ LET run == CleanupRun(listing, CleanupTime, STT_MAX_AGE)
       IN  tempDir' = {e \in tempDir : e.id \notin run.removed}
    /\ pc' = [pc EXCEPT ![r] = "done"]
    /\ UNCHANGED <<noModel, whisper_model, model_loading, current_requests, startup,
                   resp, incs, decs, loadCalls, loadsOk, invoked, 
                   ttsVars, funVars>>

\* time passes: the files present pass the age threshold
SttTick ==
    /\ tempDir' = Aged(tempDir, STT_MAX_AGE)
    /\ UNCHANGED <<whisper_model, model_loading, current_requests, startup, pc,
                   resp, incs, decs, loadCalls, loadsOk, invoked, noModel,
                   ttsVars, funVars>>

Next ==
    \/ StartupBegin
    \/ \E ok \in BOOLEAN : StartupEnd(ok)
    \/ \E r \in Reqs : Reject(r)
    \/ \E r \in Reqs, size \in Sizes : Admit(r, size)
    \/ \E r \in Reqs, ok \in BOOLEAN : LoadEnd(r, ok)
    \/ \E r \in Reqs : Wake(r)
    \/ \E r \in Reqs, upload \in UploadsOf(SampleNames), o \in Outcomes :
          ReadDone(r, upload, o)
    \/ \E r \in Reqs, listing \in Listings(tempDir) : Background(r, listing)
    \/ SttTick

\* ---------------------------------------------------------- tts-service
\* tts-service/main.py:40, os.getenv("DEFAULT_LANGUAGE", "en")
DEFAULT_LANGUAGE == "en"

\* the characters of the texts tried (code points): 'A', 'b', Cyrillic 'Б',
\* 'я', 'Ё', the space and the digit '1'
Chars == {65, 98, 1041, 1103, 1025, 32, 49}

\* line 177: set('абвгдеёжзийклмнопрстуфхцчшщъыьэюя')
russian_chars == (1072..1103) \cup {1105}

\* line 178: set('abcdefghijklmnopqrstuvwxyz')
english_chars == 97..122

\* str.strip(): leading and trailing whitespace removed
RECURSIVE LStrip(_)
LStrip(s) == IF s # <<>> /\ Head(s) = 32 THEN LStrip(Tail(s)) ELSE s

RECURSIVE RStrip(_)
RStrip(s) ==
    IF s # <<>> /\ s[Len(s)] = 32 THEN RStrip(SubSeq(s, 1, Len(s) - 1)) ELSE s

Strip(s) == RStrip(LStrip(s))

\* lines 181-182: sum(1 for c in clean_text.lower() if c in chars)
CountIn(text, chars) ==
    Cardinality({i \in 1..Len(text) : Lower(text[i]) \in chars})

\* lines 185-188
Heuristic_Ties(clean_text) ==
    IF CountIn(clean_text, russian_chars) >= CountIn(clean_text, english_chars)
    THEN "ru" ELSE "en"

Heuristic(clean_text) ==
    IF CountIn(clean_text, russian_chars) > CountIn(clean_text, english_chars)
    THEN "ru" ELSE "en"

\* lines 167-188: the language of a request; "None" is an unset field and
\* hasVoice = FALSE a request whose voice_settings is null
ChooseLanguage(req) ==
    IF req.language # "None" THEN req.language
    ELSE IF req.hasVoice /\ req.voiceLanguage # "None" THEN req.voiceLanguage
    ELSE IF Strip(req.text) # <<>> THEN Heuristic(Strip(req.text))
    ELSE DEFAULT_LANGUAGE

\* lines 57 and 63: pattern="^(en|ru|auto)$", default None
Languages == {"None", "en", "ru", "auto"}

\* the requests the schema (lines 53-63) accepts, over the given texts
Requests(texts) ==
    {[text |-> t, language |-> l, hasVoice |-> TRUE, voiceLanguage |-> v] :
        t \in texts, l \in Languages, v \in Languages}
    \cup {[text |-> t, language |-> l, hasVoice |-> FALSE,
           voiceLanguage |-> "None"] : t \in texts, l \in Languages}

\* texts of the requests sent to the service: " ", "b", "Б", "bЁ"
SampleTexts == { <<32>>, <<98>>, <<1041>>, <<98, 1025>> }

\* a request with every field unset
NoRequest ==
    [text |-> <<>>, language |-> "None", hasVoice |-> FALSE,
     voiceLanguage |-> "None"]

\* line 148: the guard of generate_speech
NotReady_Never(loaded, model) == FALSE

NotReady(loaded, model) == ~loaded \/ model = "None"

TtsInit ==
    /\ tts_model = "None"
    /\ tts_model_loading = FALSE
    /\ model_loaded = FALSE
    /\ ttsStartup = "pending"
    /\ ttsPending = 0
    /\ audioDir = {}
    /\ served = 0
    /\ ttsLoadCalls = 0
    /\ speech = [code |-> 0, unloaded |-> FALSE, called |-> FALSE,
                 language |-> "None", speaker |-> "None"]

\* lines 85-116: load_tts_model; ok = TTS(TTS_MODEL_NAME).to(device) returned.
\* The function holds no await, so a call is one step.
LoadTtsModel(ok) ==
    IF model_loaded \/ tts_model_loading
    THEN UNCHANGED <<tts_model, tts_model_loading, model_loaded, ttsLoadCalls>>
    ELSE /\ ttsLoadCalls' = ttsLoadCalls + 1
         /\ tts_model' = IF ok THEN "model" ELSE tts_model
         /\ model_loaded' = IF ok THEN TRUE ELSE model_loaded
         /\ tts_model_loading' = FALSE

\* startup_event, lines 118-125
TtsStartup(ok) ==
    /\ ttsStartup = "pending"
    /\ LoadTtsModel(ok)
    /\ ttsStartup' = "done"
    /\ UNCHANGED <<ttsPending, audioDir, served, speech, sttVars,
                   funVars>>

\* lines 194-231: the speaker given to tts_to_file; speakers is what
\* tts_model.speakers holds: "none", "named" (the default speaker of the
\* language is among them) or "other"
Speaker(language, speakers) ==
    IF speakers = "none" THEN "unspecified"
    ELSE IF speakers = "other" THEN "first"
    ELSE IF language = "ru" THEN "Dmitrii" ELSE "Claribel Dervla"

\* generate_speech, lines 144-254; synthOk = tts_to_file and getsize
\* returned.  The handler holds no await, so a request is one step.
GenerateSpeech(req, speakers, synthOk) ==
    /\ ttsStartup = "done"
    /\ served < MaxSpeech
    /\ served' = served + 1
    /\ IF NotReady(model_loaded, tts_model)
       THEN /\ speech' = [code |-> 503, unloaded |-> TRUE, called |-> FALSE,
                          language |-> "None", speaker |-> "None"]
            /\ UNCHANGED <<audioDir, ttsPending>>
       ELSE IF Strip(req.text) = <<>>
       THEN /\ speech' = [code |-> 400, unloaded |-> FALSE, called |-> FALSE,
                          language |-> "None", speaker |-> "None"]
            /\ UNCHANGED <<audioDir, ttsPending>>
       ELSE LET language == ChooseLanguage(req)
            IN  /\ speech' = [code |-> IF synthOk THEN 200 ELSE 500,
                              unloaded |-> FALSE, called |-> TRUE,
                              language |-> language,
                              speaker |-> Speaker(language, speakers)]
                /\ audioDir' = IF synthOk
                               THEN audioDir \cup
                                    {[id |-> <<"tts", served + 1>>,
                                      isfile |-> TRUE, age |-> 0]}
                               ELSE audioDir
                /\ ttsPending' = IF synthOk THEN ttsPending + 1 ELSE ttsPending
    /\ UNCHANGED <<tts_model, tts_model_loading, model_loaded, ttsLoadCalls,
                   ttsStartup, sttVars, funVars>>

\* line 242: a scheduled cleanup_old_files task runs
TtsBackground(listing) ==
    /\ ttsPending > 0
    /\ LET run == CleanupRun(listing, CleanupTime, TTS_MAX_AGE)
       IN  audioDir' = {e \in audioDir : e.id \notin run.removed}
    /\ ttsPending' = ttsPending - 1
    /\ UNCHANGED <<tts_model, tts_model_loading, model_loaded, ttsStartup,
                   served, ttsLoadCalls, speech, sttVars, funVars>>

\* time passes: the files present pass the age threshold
TtsTick ==
    /\ audioDir' = Aged(audioDir, TTS_MAX_AGE)
    /\ UNCHANGED <<tts_model, tts_model_loading, model_loaded, ttsStartup,
                   ttsPending, served, ttsLoadCalls, speech, sttVars, funVars>>

TtsNext ==
    \/ \E ok \in BOOLEAN : TtsStartup(ok)
    \/ \E req \in Requests(SampleTexts), speakers \in {"none", "named", "other"},
          synthOk \in BOOLEAN : GenerateSpeech(req, speakers, synthOk)
    \/ \E listing \in Listings(audioDir) : TtsBackground(listing)
    \/ TtsTick

\* ------------------------------------------- the functions on their own
FunInit ==
    /\ langIn = NoRequest
    /\ langOut = "unset"
    /\ dirIn = [listing |-> <<>>, now |-> 0, max_age |-> 0]
    /\ dirOut = [run |-> FALSE]
    /\ convIn = [upload |-> [hasName |-> FALSE, name |-> <<>>],
                 ffmpegOk |-> TRUE, librosaOk |-> TRUE]
    /\ convOut = [run |-> FALSE]

\* all texts of at most MaxTextLen characters
Texts == UNION {[1..n -> Chars] : n \in 0..MaxTextLen}

\* lines 151-188 of generate_speech on the request langIn: 400 for a blank
\* text, else the language chosen
DetermineLanguage ==
    /\ langOut = "unset"
    /\ langOut' = IF Strip(langIn.text) = <<>> THEN "400"
                  ELSE ChooseLanguage(langIn)
    /\ UNCHANGED <<langIn, dirIn, dirOut, convIn, convOut, sttVars,
                   ttsVars>>

LangNext == DetermineLanguage

\* the ages tried, around both thresholds
Ages == {0, STT_MAX_AGE, STT_MAX_AGE + 1, TTS_MAX_AGE, TTS_MAX_AGE + 1}

Shapes ==
    [isfile : BOOLEAN, age : Ages, err : {"none", "getctime", "remove"}]

\* directory listings of at most MaxDirLen entries, entry i named i
DirListings ==
    UNION {{[i \in 1..n |-> [id |-> i, isfile |-> f[i].isfile,
                             ctime |-> CleanupTime - f[i].age,
                             err |-> f[i].err]] :
              f \in [1..n -> Shapes]} : n \in 0..MaxDirLen}

\* cleanup_temp_files (stt, lines 126-140) when dirIn.max_age = STT_MAX_AGE,
\* cleanup_old_files (tts, lines 127-141) when it is TTS_MAX_AGE
RunCleanup ==
    /\ ~dirOut.run
    /\ LET res == CleanupRun(dirIn.listing, dirIn.now, dirIn.max_age)
       IN  dirOut' = [run |-> TRUE, removed |-> res.removed,
                      error |-> res.error, raised |-> res.raised]
    /\ UNCHANGED <<dirIn, langIn, langOut, convIn, convOut, sttVars,
                   ttsVars>>

CleanupNext == RunCleanup

\* the characters of the filenames tried: '.', 'w', 'a', 'v', 'W', 'x'
NameChars == {46, 119, 97, 118, 87, 120}

\* filenames of at most MaxNameLen characters, and the same ending ".wav",
\* ".WAV" or ".wAv"
Names ==
    LET stems == UNION {[1..n -> NameChars] : n \in 0..MaxNameLen}
    IN  stems \cup {s \o e : s \in stems,
                    e \in {DotWav, <<46, 87, 65, 86>>, <<46, 119, 65, 118>>}}

\* lines 177-190 of transcribe_audio on the upload convIn
ConvertStep ==
    /\ ~convOut.run
    /\ LET step == Conversion(convIn.upload, convIn.ffmpegOk, convIn.librosaOk)
       IN  convOut' = [run |-> TRUE, conv |-> step.conv, path |-> step.path]
    /\ UNCHANGED <<convIn, langIn, langOut, dirIn, dirOut, sttVars,
                   ttsVars>>

ConvertNext == ConvertStep

\* ------------------------------------------------------- specifications
Init == SttInit /\ TtsInit /\ FunInit

LangInit ==
    /\ SttInit /\ TtsInit
    /\ langIn \in Requests(Texts)
    /\ langOut = "unset"
    /\ dirIn = [listing |-> <<>>, now |-> 0, max_age |-> 0]
    /\ dirOut = [run |-> FALSE]
    /\ convIn = [upload |-> [hasName |-> FALSE, name |-> <<>>],
                 ffmpegOk |-> TRUE, librosaOk |-> TRUE]
    /\ convOut = [run |-> FALSE]

CleanupInit ==
    /\ SttInit /\ TtsInit
    /\ dirIn \in [listing : DirListings, now : {CleanupTime},
                  max_age : {STT_MAX_AGE, TTS_MAX_AGE}]
    /\ dirOut = [run |-> FALSE]
    /\ langIn = NoRequest
    /\ langOut = "unset"
    /\ convIn = [upload |-> [hasName |-> FALSE, name |-> <<>>],
                 ffmpegOk |-> TRUE, librosaOk |-> TRUE]
    /\ convOut = [run |-> FALSE]

ConvertInit ==
    /\ SttInit /\ TtsInit
    /\ convIn \in [upload : UploadsOf(Names), ffmpegOk : BOOLEAN,
                   librosaOk : BOOLEAN]
    /\ convOut = [run |-> FALSE]
    /\ langIn = NoRequest
    /\ langOut = "unset"
    /\ dirIn = [listing |-> <<>>, now |-> 0, max_age |-> 0]
    /\ dirOut = [run |-> FALSE]

\* stt-service
Spec == Init /\ [][Next]_vars

\* stt-service, where every coroutine that can run eventually does: the
\* event loop resumes a sleeping coroutine (Wake) and a call of
\* whisper.load_model ends (StartupEnd, LoadEnd)
Fairness ==
    /\ WF_vars(\E ok \in BOOLEAN : StartupEnd(ok))
    /\ \A r \in Reqs : WF_vars(\E ok \in BOOLEAN : LoadEnd(r, ok))
    /\ \A r \in Reqs : WF_vars(Wake(r))

FairSpec == Init /\ [][Next]_vars /\ Fairness

\* tts-service
TtsSpec == Init /\ [][TtsNext]_vars

\* the language of a request
LangSpec == LangInit /\ [][LangNext]_vars

\* a cleanup run
CleanupSpec == CleanupInit /\ [][CleanupNext]_vars

\* the conversion step of a request
ConvertSpec == ConvertInit /\ [][ConvertNext]_vars

\* =================================================================== claims
\* requests admitted and not yet answered
InFlight == {r \in Reqs : pc[r] \in {"loading", "waiting", "reading"}}

\* calls of whisper.load_model that have not ended
LoadsInProgress ==
    Cardinality({r \in Reqs : pc[r] = "loading"})
        + (IF startup = "loading" THEN 1 ELSE 0)

\* C1: a /transcribe request that arrives when current_requests >=
\* MAX_CONCURRENT_REQUESTS is answered 429 and changes nothing (the counter,
\* the temp directory, the model, the calls of the model); a request that
\* arrives when current_requests < MAX_CONCURRENT_REQUESTS is not answered 429.
C1_RejectedAtLimitOnly ==
    [][\A r \in Reqs :
         (pc[r] = "idle" /\ pc'[r] # "idle") =>
            IF current_requests >= MAX_CONCURRENT_REQUESTS
            THEN /\ resp'[r] = 429
                 /\ UNCHANGED <<current_requests, tempDir, whisper_model,
                                model_loading, loadCalls, loadsOk, invoked,
                                incs, decs>>
            ELSE resp'[r] # 429]_vars

\* a request was rejected while the counter stood at the limit
C1_Witness ==
    \E r \in Reqs :
        resp[r] = 429 /\ current_requests = MAX_CONCURRENT_REQUESTS

\* C2: current_requests equals the number of admitted requests not yet
\* finished, so it stays within 0..MAX_CONCURRENT_REQUESTS; a finished request
\* that was admitted (answered 200, 413, 503 or 500) has incremented and
\* decremented the counter exactly once, a rejected one never; the counter is
\* 0 when no request is in flight.
C2_CounterIsInFlight ==
    /\ current_requests = Cardinality(InFlight)
    /\ current_requests >= 0
    /\ current_requests <= MAX_CONCURRENT_REQUESTS
    /\ \A r \in Reqs :
         /\ pc[r] = "idle" => incs[r] = 0 /\ decs[r] = 0
         /\ r \in InFlight => incs[r] = 1 /\ decs[r] = 0
         /\ pc[r] \in {"done", "background"} =>
              \/ resp[r] = 429 /\ incs[r] = 0 /\ decs[r] = 0
              \/ resp[r] \in {200, 413, 503, 500} /\ incs[r] = 1 /\ decs[r] = 1
    /\ InFlight = {} => current_requests = 0

\* requests have left by 503, by 500 and by 200, and none is in flight
C2_Witness ==
    /\ \E r1, r2, r3 \in Reqs :
         resp[r1] = 503 /\ resp[r2] = 500 /\ resp[r3] = 200
    /\ InFlight = {}

\* C3: at most one call of whisper.load_model is in progress at any moment; a
\* call is started only when whisper_model is None and model_loading is False;
\* once whisper_model holds a model it keeps it and no load is started or
\* completed again.
C3_LoadedOnce ==
    /\ [](LoadsInProgress <= 1)
    /\ [](loadsOk <= 1)
    /\ [][loadCalls' # loadCalls =>
            whisper_model = "None" /\ ~model_loading]_vars
    /\ [][whisper_model = "model" =>
            /\ whisper_model' = "model"
            /\ loadCalls' = loadCalls
            /\ loadsOk' = loadsOk]_vars

\* a request waits while another one loads, after a load that failed
C3_Witness ==
    /\ loadCalls >= 2
    /\ \E r1, r2 \in Reqs : pc[r1] = "loading" /\ pc[r2] = "waiting"

\* C4: model_loading is True exactly while a call of whisper.load_model is in
\* progress (it is reset when the call returns and when it raises); a request
\* in the wait loop eventually leaves it, and when it leaves, model_loading is
\* False and the request goes on with the current whisper_model: to its 503
\* when that is None, to reading the upload when it is a model.
C4_WaitEnds ==
    /\ [](model_loading <=> LoadsInProgress = 1)
    /\ \A r \in Reqs : (pc[r] = "waiting") ~> (pc[r] # "waiting")
    /\ [][\A r \in Reqs :
            (pc[r] = "waiting" /\ pc'[r] # "waiting") =>
               /\ ~model_loading
               /\ IF whisper_model = "None"
                  THEN resp'[r] = 503 /\ pc'[r] = "done"
                  ELSE resp'[r] = 0 /\ pc'[r] = "reading"]_vars

\* a request waited for a load that failed and has left the loop without a
\* model
C4_Witness ==
    \E r \in Reqs : resp[r] = 503 /\ noModel[r] /\ ~model_loading

\* C10: an admitted request for which the model could not be loaded (its own
\* load raised, or the load it waited for failed) is answered 503, with no
\* temp file written, transcription not invoked and the counter decremented.
C10_NoModelIs503 ==
    \A r \in Reqs :
        noModel[r] =>
            /\ resp[r] = 503
            /\ ~invoked[r]
            /\ decs[r] = 1
            /\ \A e \in tempDir : e.id[2] # r

\* C5 as claimed: a /generate-speech request that arrives when the model is
\* not loaded causes the model to be loaded.
C5_RequestLoadsModel ==
    [][(served' = served + 1 /\ ~model_loaded) =>
          ttsLoadCalls' = ttsLoadCalls + 1]_vars

\* C5 as amended: the model is loaded by the startup event only, at most
\* once; a request never loads it and never changes tts_model, model_loaded
\* or model_loading; a request that arrives when the model is not loaded is
\* answered 503 without synthesis; after a failed startup load the model
\* stays unloaded.
C5_LoadedAtStartupOnly ==
    /\ [](ttsLoadCalls <= 1)
    /\ [][served' = served + 1 =>
            /\ UNCHANGED <<tts_model, tts_model_loading, model_loaded,
                           ttsLoadCalls>>
            /\ (~model_loaded \/ tts_model = "None") =>
                  /\ speech'.code = 503
                  /\ ~speech'.called
                  /\ UNCHANGED audioDir]_vars
    /\ [][(ttsStartup = "done" /\ ~model_loaded) => ~model_loaded']_vars

\* the startup load failed and a request has been answered 503
C5_Witness ==
    /\ ttsStartup = "done" /\ ttsLoadCalls = 1 /\ ~model_loaded
    /\ served >= 1 /\ speech.code = 503 /\ speech.unloaded

\* the regular files of a listing older than max_age at time t (positions)
OldFiles(listing, t, max_age) ==
    {i \in 1..Len(listing) :
        listing[i].isfile /\ t - listing[i].ctime > max_age}

\* the positions of a listing where the run fails: a regular file whose
\* ctime cannot be read, or an old regular file that cannot be removed
FailsAt(listing, t, max_age) ==
    {i \in 1..Len(listing) :
        /\ listing[i].isfile
        /\ \/ listing[i].err = "getctime"
           \/ listing[i].err = "remove" /\ i \in OldFiles(listing, t, max_age)}

\* C6 as claimed: a cleanup run removes every regular file older than the
\* threshold, leaves every other entry, and raises nothing.
C6_RemovesExactlyOld ==
    dirOut.run =>
        /\ dirOut.removed = OldFiles(dirIn.listing, dirIn.now, dirIn.max_age)
        /\ ~dirOut.raised

\* C6 as amended: a cleanup run removes exactly the regular files older than
\* the threshold that are listed before the first entry on which a filesystem
\* call fails (all of them when no call fails); files of age <= threshold,
\* entries that are not regular files and every entry from the failing one on
\* are left; the failure is swallowed.
C6_RemovesOldUntilFailure ==
    dirOut.run =>
        LET old == OldFiles(dirIn.listing, dirIn.now, dirIn.max_age)
            fails == FailsAt(dirIn.listing, dirIn.now, dirIn.max_age)
        IN  /\ dirOut.removed = {i \in old : \A k \in fails : i < k}
            /\ dirOut.error = (fails # {})
            /\ ~dirOut.raised

\* a run removed an old file and was stopped by a failure, which left an
\* old file in the directory
C6_Witness ==
    /\ dirOut.run /\ dirOut.error /\ dirOut.removed # {}
    /\ OldFiles(dirIn.listing, dirIn.now, dirIn.max_age) \ dirOut.removed # {}

\* the filename ends in ".wav" in some mix of upper and lower case
EndsInWav(upload) ==
    /\ upload.hasName
    /\ Len(upload.name) >= 4
    /\ LET n == Len(upload.name)
       IN  /\ upload.name[n - 3] = 46
           /\ upload.name[n - 2] \in {119, 87}
           /\ upload.name[n - 1] \in {97, 65}
           /\ upload.name[n] \in {118, 86}

\* C7: convert_audio_format tries ffmpeg first and librosa only if ffmpeg
\* raised, returns True iff one of the two succeeded and never raises;
\* /transcribe gives the converted file to the model iff the filename does not
\* end in '.wav' (case-insensitive) and convert_audio_format returned True,
\* and the uploaded file otherwise.
C7_ConvertedIffNeededAndDone ==
    convOut.run =>
        LET c == convOut.conv
            called == c.ffmpegTried
        IN  /\ c.librosaTried => c.ffmpegTried
            /\ called => /\ c.librosaTried = ~convIn.ffmpegOk
                         /\ c.ret = (convIn.ffmpegOk \/ convIn.librosaOk)
            /\ ~c.raised
            /\ convOut.path \in {"converted", "input"}
            /\ convOut.path = "converted" <=>
                 (~EndsInWav(convIn.upload) /\ called /\ c.ret)

\* ffmpeg raised, librosa converted an upload named in upper case other than
\* ".WAV", and the converted file was given to the model
C7_Witness ==
    /\ convOut.run /\ convOut.path = "converted"
    /\ convOut.conv.librosaTried
    /\ convIn.upload.hasName /\ 87 \in {convIn.upload.name[i] :
                                          i \in 1..Len(convIn.upload.name)}

\* the letters of a text; Russian and English, in either case
RussianLetters(text) ==
    Cardinality({i \in 1..Len(text) :
                    text[i] \in (1040..1103) \cup {1025, 1105}})

EnglishLetters(text) ==
    Cardinality({i \in 1..Len(text) : text[i] \in (65..90) \cup (97..122)})

\* C8: the language of a request is its top-level language if set, else
\* voice_settings.language if set, else "ru" when the text holds strictly more
\* Russian than English letters and "en" otherwise.
C8_LanguagePrecedence ==
    langOut \notin {"unset", "400"} =>
        langOut =
            IF langIn.language # "None" THEN langIn.language
            ELSE IF langIn.hasVoice /\ langIn.voiceLanguage # "None"
            THEN langIn.voiceLanguage
            ELSE IF RussianLetters(langIn.text) > EnglishLetters(langIn.text)
            THEN "ru"
            ELSE "en"

\* the heuristic decided a text that holds letters of both alphabets in equal
\* number, one of them in upper case and with a space around the text
C8_Witness ==
    /\ langOut = "en"
    /\ langIn.language = "None"
    /\ langIn.hasVoice /\ langIn.voiceLanguage = "None"
    /\ RussianLetters(langIn.text) = 1 /\ EnglishLetters(langIn.text) = 1
    /\ langIn.text[1] = 32 /\ 1041 \in {langIn.text[i] : i \in 1..Len(langIn.text)}

\* C9: the language given to tts_to_file is "en" or "ru", never "auto".
C9_NeverAuto ==
    speech.called => speech.language \in {"en", "ru"}

\* the temp files that request r created and that are still in the directory
OwnFiles(r) ==
    {e \in tempDir : e.id \in {<<"input", r>>, <<"converted", r>>}}

\* C11: when an admitted /transcribe request has finished, with a
\* transcription or with an error, neither its input_<id>_<filename> file nor
\* its converted_<id>.wav file is in the temp directory.
C11_NoArtifactsLeft ==
    \A r \in Reqs : (incs[r] = 1 /\ resp[r] # 0) => OwnFiles(r) = {}

====
